---------------------------- MODULE Spec2Model ----------------------------
(***************************************************************************)
(* Model of the task execution engine of parthenon (task_list/tasks.hpp):  *)
(* TaskID, BaseTask and TaskList.  One TaskList is modelled; AddTask,      *)
(* DoAvailable and Reset are its operations.  A task body is an arbitrary  *)
(* callable: on every invocation it returns some TaskStatus or raises a    *)
(* fault, chosen nondeterministically.  Spec is the TaskList; SpecID       *)
(* applies the TaskID operations to identifiers of one and two bit blocks; *)
(* SpecBarrier is the TaskList with other TaskLists as its barrier lists.  *)
(* SpecChains adds two interleaved dependency chains; SpecContainer adds   *)
(* the container's task entry points; SpecLive is the driving loop that    *)
(* calls DoAvailable until it reports complete; SpecTwoLists runs the      *)
(* TaskList next to another TaskList.                                      *)
(* SpecMark marks identities of two bit blocks complete and Resets.        *)
(***************************************************************************)
EXTENDS Integers, Sequences, FiniteSets, TLC

\* ------------------------------------------------------------------ bounds
\* at most MaxTasks AddTask calls between two Reset calls (and on each of
\* the other lists), at most MaxTasks registrations of a barrier list
MaxTasks == 3
\* at most MaxCalls DoAvailable calls between two Reset calls
MaxCalls == 3
\* the number of tasks of a chain (SpecChains)
ChainLen == 5
\* a body reports incomplete at most MaxRetry times (SpecLive)
MaxRetry == 2

\* ------------------------------------------------------- program constants
\* #define BITBLOCK 16
BITBLOCK == 16

\* enum class TaskListStatus { running, stuck, complete, nothing_to_do }
TaskListStatus == {"running", "stuck", "complete", "nothing_to_do"}

\* the statuses a body hands back (TaskStatus::complete, ::incomplete)
TaskStatus == {"complete", "incomplete"}

\* what one invocation of a body does: return a status, or raise a fault
Outcomes == TaskStatus \cup {"throw"}

Max(a, b) == IF a >= b THEN a ELSE b

\* ------------------------------------------------------------------ TaskID
\* A TaskID is its bitblocks: a sequence of blocks, each block the set of
\* the bit positions 0..BITBLOCK-1 that are set.

\* TaskID::Set(int id) on a new identifier: index id >= 1 sets bit id-1,
\* index 0 sets no bit
Set(id) ==
  IF id = 0 THEN << {} >>
  ELSE [i \in 1..(((id - 1) \div BITBLOCK) + 1) |->
          IF i = ((id - 1) \div BITBLOCK) + 1 THEN {(id - 1) % BITBLOCK} ELSE {}]

\* TaskID() { Set(0); }
TaskIDDefault == Set(0)

\* explicit TaskID(int id)
TaskID(id) == Set(id)

\* block i of t, an absent block reads as no bit set
Block(t, i) == IF i \in DOMAIN t THEN t[i] ELSE {}

\* the indices (1-based) whose bit is set in t
Bits(t) == UNION {{(i - 1) * BITBLOCK + b + 1 : b \in t[i]} : i \in DOMAIN t}

\* void TaskID::clear(): every bit reset, the block count kept
clear(t) == [i \in DOMAIN t |-> {}]

\* bool TaskID::CheckDependencies(rhs) const: every bit of rhs is set in self
CheckDependencies(self, rhs) ==
  \A i \in DOMAIN rhs : Block(rhs, i) \subseteq Block(self, i)

\* void TaskID::SetFinished(rhs): the bits of rhs are OR-ed into self
SetFinished(self, rhs) ==
  [i \in 1..Max(Len(self), Len(rhs)) |-> Block(self, i) \cup Block(rhs, i)]

\* mutant: identifiers of different block counts are never equal
TaskIDEqSameLength(a, b) ==
  Len(a) = Len(b) /\ \A i \in DOMAIN a : a[i] = b[i]

\* bool TaskID::operator==(rhs): the shorter operand reads as zero-padded
TaskIDEq(a, b) ==
  \A i \in 1..Max(Len(a), Len(b)) : Block(a, i) = Block(b, i)

\* mutant: the result has the block count of the left operand
TaskIDOrTruncated(a, b) ==
  [i \in 1..Len(a) |-> Block(a, i) \cup Block(b, i)]

\* TaskID TaskID::operator|(rhs): bitwise OR over all blocks
TaskIDOr(a, b) ==
  [i \in 1..Max(Len(a), Len(b)) |-> Block(a, i) \cup Block(b, i)]

\* ------------------------------------------------------------------- state
VARIABLES
  _task_list,        \* std::list<std::unique_ptr<BaseTask>>: the pending tasks
  _tasks_added,      \* int
  _dependencies,     \* std::vector<TaskList *>: the registered barrier lists
  _tasks_completed,  \* TaskID: the completed-set
  added,             \* history: the AddTask calls since the last Reset
  hist,              \* history: per added task, what each invocation of
                     \*          its body did, oldest first
  pre,               \* history: if the last operation was DoAvailable or
                     \*          Reset, the pending tasks, completed-set and
                     \*          registered barrier lists before it
  log,               \* history: if the last operation was DoAvailable, its
                     \*          body invocations in order
  calls,             \* history: the DoAvailable calls since the last Reset
  lastOp,            \* history: the last operation called
  ret,               \* history: what the last operation returned
  fresh,             \* history: a list constructed at the last Reset and
                     \*          given the same calls since
  ida, idb, idc,     \* three TaskID objects (SpecID)
  others             \* the other TaskLists of the program, by name: of each
                     \*   its _task_list, _tasks_added, _tasks_completed

\* the three TaskID objects
idvars == <<ida, idb, idc>>

\* the TaskList and its history
listvars == <<_task_list, _tasks_added, _dependencies, _tasks_completed,
              added, hist, pre, log, calls, lastOp, ret, fresh, others>>

vars == <<listvars, idvars>>

\* the dependencies a caller passes to AddTask: none, the identity of the
\* first or the second task, the union of both, or an identity of the
\* second bit block, which no task of the list carries
DepChoices ==
  {TaskIDDefault, TaskID(1), TaskID(2), TaskIDOr(TaskID(1), TaskID(2)),
   TaskID(BITBLOCK + 1)}

\* BaseTask(TaskID id, TaskID dep) : _myid(id), _dep(dep), _complete = false
\* (k: the task is the one of the k-th AddTask call since the last Reset)
BaseTask(id, dep, k) == [_myid |-> id, _dep |-> dep, _complete |-> FALSE, k |-> k]

\* mutant: the flag is not set
SetCompleteForgotten(task) == task

\* void BaseTask::SetComplete()
SetComplete(task) == [task EXCEPT !._complete = TRUE]

\* bool BaseTask::IsComplete()
TaskIsComplete(task) == task._complete

\* a newly constructed TaskList, as the history variable fresh holds it
\* (afterReset: Reset has been called on a list that had completed tasks)
FreshList(afterReset) ==
  [tl |-> << >>, n |-> 0, completed |-> TaskIDDefault, log |-> << >>,
   ret |-> "none", afterReset |-> afterReset]

\* the other TaskLists a list can have as barrier lists
OtherLists == {"l1", "l2"}

\* a newly constructed TaskList
NewList ==
  [_task_list |-> << >>, _tasks_added |-> 0, _tasks_completed |-> TaskIDDefault]

ListInit ==
  /\ _task_list = << >>
  /\ _tasks_added = 0
  /\ _dependencies = << >>
  /\ _tasks_completed = TaskIDDefault
  /\ added = << >>
  /\ hist = << >>
  /\ pre = [tl |-> << >>, completed |-> TaskIDDefault, deps |-> << >>]
  /\ log = << >>
  /\ calls = 0
  /\ lastOp = "init"
  /\ ret = "none"
  /\ fresh = FreshList(FALSE)
  /\ others = [l \in OtherLists |-> NewList]

Init ==
  /\ ListInit
  /\ ida = TaskIDDefault
  /\ idb = TaskIDDefault
  /\ idc = TaskIDDefault

\* ---------------------------------------------------------------- TaskList
\* bool TaskList::IsComplete()
IsComplete(tl) == tl = << >>

\* int TaskList::Size()
Size(tl) == Len(tl)

\* mutant: the identity is not put into the completed-set
MarkTaskCompleteNever(completed, id) == completed

\* mutant: the identity is assigned to the completed-set, not OR-ed into it
MarkTaskCompleteAssign(completed, id) == id

\* mutant: the identity's bits are toggled (XOR) in the completed-set
MarkTaskCompleteToggle(completed, id) ==
  [i \in 1..Max(Len(completed), Len(id)) |->
     (Block(completed, i) \ Block(id, i)) \cup (Block(id, i) \ Block(completed, i))]

\* void TaskList::MarkTaskComplete(TaskID id)
MarkTaskComplete(completed, id) == SetFinished(completed, id)

\* mutant: the tasks that remain are left in the opposite order
ClearCompleteReverse(tl) ==
  LET rest == SelectSeq(tl, LAMBDA task : ~TaskIsComplete(task))
  IN [i \in 1..Len(rest) |-> rest[Len(rest) + 1 - i]]

\* mutant: only the first task whose flag is set is erased
ClearCompleteFirst(tl) ==
  LET flagged == {i \in DOMAIN tl : TaskIsComplete(tl[i])}
  IN IF flagged = {} THEN tl
     ELSE LET f == CHOOSE i \in flagged : \A j \in flagged : i <= j
          IN SubSeq(tl, 1, f - 1) \o SubSeq(tl, f + 1, Len(tl))

\* void TaskList::ClearComplete(): erase every task whose flag is set
ClearComplete(tl) == SelectSeq(tl, LAMBDA task : ~TaskIsComplete(task))

\* mutant: nothing is ready while the completed-set is empty
ReadyNonEmpty(completed, task) ==
  Bits(completed) # {} /\ CheckDependencies(completed, task._dep)

\* mutant: one identity of the dependency in the completed-set is enough
ReadyAny(completed, task) ==
  \/ Bits(task._dep) = {}
  \/ Bits(task._dep) \cap Bits(completed) # {}

\* mutant: only the first bit block of the dependency is checked
ReadyFirstBlock(completed, task) ==
  CheckDependencies(completed, << task._dep[1] >>)

\* mutant: only the blocks both identifiers have are compared
ReadyCommonBlocks(completed, task) ==
  \A i \in DOMAIN task._dep \cap DOMAIN completed :
     Block(task._dep, i) \subseteq Block(completed, i)

\* mutant: the check is made the wrong way round
ReadyReversed(completed, task) == CheckDependencies(task._dep, completed)

\* auto dep = task->GetDependency(); _tasks_completed.CheckDependencies(dep)
Ready(completed, task) == CheckDependencies(completed, task._dep)

\* mutant: a fault of a body is caught and taken as incomplete
RECURSIVE ScanCatch(_, _, _, _)
ScanCatch(i, tl, completed, lg) ==
  IF i > Len(tl)
  THEN {[tl |-> tl, completed |-> completed, log |-> lg, thrown |-> FALSE]}
  ELSE LET task == tl[i]
           entry(status) == [k |-> task.k, dep |-> task._dep,
                             before |-> completed, status |-> status]
       IN IF Ready(completed, task)
          THEN UNION {
                 IF status = "complete"
                 THEN ScanCatch(i + 1, [tl EXCEPT ![i] = SetComplete(task)],
                                MarkTaskComplete(completed, task._myid),
                                Append(lg, entry(status)))
                 ELSE ScanCatch(i + 1, tl, completed, Append(lg, entry(status)))
                 : status \in Outcomes}
          ELSE ScanCatch(i + 1, tl, completed, lg)

\* mutant: the status a body returns is not looked at, every invoked task
\* is flagged and marked complete
RECURSIVE ScanIgnoreStatus(_, _, _, _)
ScanIgnoreStatus(i, tl, completed, lg) ==
  IF i > Len(tl)
  THEN {[tl |-> tl, completed |-> completed, log |-> lg, thrown |-> FALSE]}
  ELSE LET task == tl[i]
           entry(status) == [k |-> task.k, dep |-> task._dep,
                             before |-> completed, status |-> status]
       IN IF Ready(completed, task)
          THEN UNION {
                 IF status = "throw"
                 THEN {[tl |-> tl, completed |-> completed,
                        log |-> Append(lg, entry(status)), thrown |-> TRUE]}
                 ELSE ScanIgnoreStatus(i + 1,
                                       [tl EXCEPT ![i] = SetComplete(task)],
                                       MarkTaskComplete(completed, task._myid),
                                       Append(lg, entry(status)))
                 : status \in Outcomes}
          ELSE ScanIgnoreStatus(i + 1, tl, completed, lg)

\* mutant: the loop is left at the first body that does not report complete
RECURSIVE ScanBreak(_, _, _, _)
ScanBreak(i, tl, completed, lg) ==
  IF i > Len(tl)
  THEN {[tl |-> tl, completed |-> completed, log |-> lg, thrown |-> FALSE]}
  ELSE
    LET task == tl[i]
        entry(status) == [k |-> task.k, dep |-> task._dep,
                          before |-> completed, status |-> status]
    IN IF CheckDependencies(completed, task._dep)
       THEN UNION {
              IF status = "throw"
              THEN {[tl |-> tl, completed |-> completed,
                     log |-> Append(lg, entry(status)), thrown |-> TRUE]}
              ELSE IF status = "complete"
                   THEN ScanBreak(i + 1, [tl EXCEPT ![i] = SetComplete(task)],
                                  SetFinished(completed, task._myid),
                                  Append(lg, entry(status)))
                   ELSE {[tl |-> tl, completed |-> completed,
                          log |-> Append(lg, entry(status)), thrown |-> FALSE]}
              : status \in Outcomes}
       ELSE ScanBreak(i + 1, tl, completed, lg)

\* mutant: readiness is decided against the completed-set the call started
\* with, not against the running one
RECURSIVE ScanFrom(_, _, _, _, _)
ScanFrom(i, tl, completed, lg, start) ==
  IF i > Len(tl)
  THEN {[tl |-> tl, completed |-> completed, log |-> lg, thrown |-> FALSE]}
  ELSE
    LET task == tl[i]
        entry(status) == [k |-> task.k, dep |-> task._dep,
                          before |-> completed, status |-> status]
    IN IF CheckDependencies(start, task._dep)
       THEN UNION {
              IF status = "throw"
              THEN {[tl |-> tl, completed |-> completed,
                     log |-> Append(lg, entry(status)), thrown |-> TRUE]}
              ELSE IF status = "complete"
                   THEN ScanFrom(i + 1, [tl EXCEPT ![i] = SetComplete(task)],
                                 SetFinished(completed, task._myid),
                                 Append(lg, entry(status)), start)
                   ELSE ScanFrom(i + 1, tl, completed,
                                 Append(lg, entry(status)), start)
              : status \in Outcomes}
       ELSE ScanFrom(i + 1, tl, completed, lg, start)

ScanSnapshot(i, tl, completed, lg) == ScanFrom(i, tl, completed, lg, completed)

\* the for loop of TaskList::DoAvailable from position i on: the set of its
\* possible results, one per choice of what each invoked body does.  A
\* fault leaves the loop and the function at once.
RECURSIVE Scan(_, _, _, _)
Scan(i, tl, completed, lg) ==
  IF i > Len(tl)
  THEN {[tl |-> tl, completed |-> completed, log |-> lg, thrown |-> FALSE]}
  ELSE
    LET task == tl[i]
        entry(status) == [k |-> task.k, dep |-> task._dep,
                          before |-> completed, status |-> status]
    IN IF Ready(completed, task)
       THEN UNION {
              IF status = "throw"
              THEN {[tl |-> tl, completed |-> completed,
                     log |-> Append(lg, entry(status)), thrown |-> TRUE]}
              ELSE IF status = "complete"
                   THEN Scan(i + 1, [tl EXCEPT ![i] = SetComplete(task)],
                             MarkTaskComplete(completed, task._myid),
                             Append(lg, entry(status)))
                   ELSE Scan(i + 1, tl, completed, Append(lg, entry(status)))
              : status \in Outcomes}
       ELSE Scan(i + 1, tl, completed, lg)

\* the histories after the invocations of lg
RECURSIVE Record(_, _)
Record(h, lg) ==
  IF lg = << >> THEN h
  ELSE Record([h EXCEPT ![Head(lg).k] = Append(@, Head(lg).status)], Tail(lg))

\* mutant: the list counts as complete with one task left (size() <= 1)
DoAvailableStatusOffByOne(tl) == IF Len(tl) <= 1 THEN "complete" ELSE "running"

\* mutant: an empty list is reported as nothing_to_do
DoAvailableStatusNothingToDo(tl) ==
  IF IsComplete(tl) THEN "nothing_to_do" ELSE "running"

\* if (IsComplete()) return TaskListStatus::complete;
\* return TaskListStatus::running;
DoAvailableStatus(tl) == IF IsComplete(tl) THEN "complete" ELSE "running"

\* the scans of the list fresh in which every body does what it did in the
\* scan with invocations lg
SameBodies(lg) ==
  {f \in Scan(1, fresh.tl, fresh.completed, << >>) :
     \A n \in DOMAIN f.log : \A m \in DOMAIN lg :
        f.log[n].k = lg[m].k => f.log[n].status = lg[m].status}

\* DoAvailable on the list fresh, its scan being f
FreshDoAvailable(f) ==
  [fresh EXCEPT !.tl = IF f.thrown THEN f.tl ELSE ClearComplete(f.tl),
                !.completed = f.completed,
                !.log = f.log,
                !.ret = IF f.thrown THEN "fault"
                        ELSE DoAvailableStatus(ClearComplete(f.tl))]

\* TaskListStatus TaskList::DoAvailable()
DoAvailable ==
  /\ calls < MaxCalls
  /\ \E s \in Scan(1, _task_list, _tasks_completed, << >>) :
       /\ _tasks_completed' = s.completed
       /\ _task_list' = IF s.thrown THEN s.tl ELSE ClearComplete(s.tl)
       /\ ret' = IF s.thrown THEN "fault"
                 ELSE DoAvailableStatus(ClearComplete(s.tl))
       /\ log' = s.log
       /\ hist' = Record(hist, s.log)
       /\ \E f \in SameBodies(s.log) : fresh' = FreshDoAvailable(f)
  /\ pre' = [tl |-> _task_list, completed |-> _tasks_completed,
            deps |-> _dependencies]
  /\ calls' = calls + 1
  /\ lastOp' = "DoAvailable"
  /\ UNCHANGED <<_tasks_added, _dependencies, added, idvars, others>>

\* mutant: the increment is forgotten
NextIDNoIncrement(n) == TaskID(n)

\* TaskID id(_tasks_added + 1)
NextID(n) == TaskID(n + 1)

\* mutant: the task is put at the head of the pending collection (push_front)
AddTaskFront ==
  /\ Len(added) < MaxTasks
  /\ \E dep \in DepChoices :
       LET id == NextID(_tasks_added)
       IN /\ _task_list' = << BaseTask(id, dep, Len(added) + 1) >> \o _task_list
          /\ _tasks_added' = _tasks_added + 1
          /\ added' = Append(added, [id |-> id, dep |-> dep])
          /\ ret' = id
          /\ fresh' = [fresh EXCEPT
                         !.tl = Append(@, BaseTask(NextID(fresh.n), dep,
                                                   Len(added) + 1)),
                         !.n = @ + 1,
                         !.log = << >>,
                         !.ret = NextID(fresh.n)]
  /\ hist' = Append(hist, << >>)
  /\ pre' = [tl |-> << >>, completed |-> TaskIDDefault, deps |-> << >>]
  /\ log' = << >>
  /\ lastOp' = "AddTask"
  /\ UNCHANGED <<_dependencies, _tasks_completed, calls, idvars, others>>

\* TaskID TaskList::AddTask<T>(args...): dep is the dependency among args
AddTask ==
  /\ Len(added) < MaxTasks
  /\ \E dep \in DepChoices :
       LET id == NextID(_tasks_added)
       IN /\ _task_list' = Append(_task_list, BaseTask(id, dep, Len(added) + 1))
          /\ _tasks_added' = _tasks_added + 1
          /\ added' = Append(added, [id |-> id, dep |-> dep])
          /\ ret' = id
          /\ fresh' = [fresh EXCEPT
                         !.tl = Append(@, BaseTask(NextID(fresh.n), dep,
                                                   Len(added) + 1)),
                         !.n = @ + 1,
                         !.log = << >>,
                         !.ret = NextID(fresh.n)]
  /\ hist' = Append(hist, << >>)
  /\ pre' = [tl |-> << >>, completed |-> TaskIDDefault, deps |-> << >>]
  /\ log' = << >>
  /\ lastOp' = "AddTask"
  /\ UNCHANGED <<_dependencies, _tasks_completed, calls, idvars, others>>

\* the history variables after a call of Reset
ResetHistory ==
  /\ added' = << >>
  /\ hist' = << >>
  /\ pre' = [tl |-> _task_list, completed |-> _tasks_completed,
            deps |-> _dependencies]
  /\ log' = << >>
  /\ calls' = 0
  /\ lastOp' = "Reset"
  /\ ret' = "none"
  /\ fresh' = FreshList(fresh.afterReset \/ Bits(_tasks_completed) # {})
  /\ UNCHANGED <<idvars, others>>

\* mutant: the identity counter is not set back
ResetKeepsCounter ==
  /\ _tasks_added' = _tasks_added
  /\ _task_list' = << >>
  /\ _dependencies' = << >>
  /\ _tasks_completed' = clear(_tasks_completed)
  /\ ResetHistory

\* mutant: the completed-set is not cleared
ResetKeepsCompleted ==
  /\ _tasks_added' = 0
  /\ _task_list' = << >>
  /\ _dependencies' = << >>
  /\ _tasks_completed' = _tasks_completed
  /\ ResetHistory

\* mutant: the registered barrier lists are kept
ResetKeepsBarriers ==
  /\ _tasks_added' = 0
  /\ _task_list' = << >>
  /\ _dependencies' = _dependencies
  /\ _tasks_completed' = clear(_tasks_completed)
  /\ ResetHistory

\* void TaskList::Reset()
Reset ==
  /\ _tasks_added' = 0
  /\ _task_list' = << >>
  /\ _dependencies' = << >>
  /\ _tasks_completed' = clear(_tasks_completed)
  /\ ResetHistory

Next == AddTask \/ DoAvailable \/ Reset

Spec == Init /\ [][Next]_vars

\* ------------------------------------------- lists of tasks of given kinds
\* mutant: the loop is left after the first body that reports complete
RECURSIVE ScanWithBreak(_, _, _, _, _)
ScanWithBreak(i, tl, completed, lg, bodies) ==
  IF i > Len(tl)
  THEN {[tl |-> tl, completed |-> completed, log |-> lg, thrown |-> FALSE]}
  ELSE LET task == tl[i]
           entry(status) == [k |-> task.k, dep |-> task._dep,
                             before |-> completed, status |-> status]
       IN IF Ready(completed, task)
          THEN UNION {
                 IF status = "throw"
                 THEN {[tl |-> tl, completed |-> completed,
                        log |-> Append(lg, entry(status)), thrown |-> TRUE]}
                 ELSE IF status = "complete"
                 THEN {[tl |-> [tl EXCEPT ![i] = SetComplete(task)],
                        completed |-> MarkTaskComplete(completed, task._myid),
                        log |-> Append(lg, entry(status)), thrown |-> FALSE]}
                 ELSE ScanWithBreak(i + 1, tl, completed,
                                    Append(lg, entry(status)), bodies)
                 : status \in bodies[task.k]}
          ELSE ScanWithBreak(i + 1, tl, completed, lg, bodies)

\* the loop of DoAvailable over tasks whose bodies are known: bodies[k] is
\* the set of things an invocation of the body of task k can do
RECURSIVE ScanWith(_, _, _, _, _)
ScanWith(i, tl, completed, lg, bodies) ==
  IF i > Len(tl)
  THEN {[tl |-> tl, completed |-> completed, log |-> lg, thrown |-> FALSE]}
  ELSE LET task == tl[i]
           entry(status) == [k |-> task.k, dep |-> task._dep,
                             before |-> completed, status |-> status]
       IN IF Ready(completed, task)
          THEN UNION {
                 IF status = "throw"
                 THEN {[tl |-> tl, completed |-> completed,
                        log |-> Append(lg, entry(status)), thrown |-> TRUE]}
                 ELSE IF status = "complete"
                 THEN ScanWith(i + 1, [tl EXCEPT ![i] = SetComplete(task)],
                               MarkTaskComplete(completed, task._myid),
                               Append(lg, entry(status)), bodies)
                 ELSE ScanWith(i + 1, tl, completed,
                               Append(lg, entry(status)), bodies)
                 : status \in bodies[task.k]}
          ELSE ScanWith(i + 1, tl, completed, lg, bodies)

\* TaskListStatus TaskList::DoAvailable(), the bodies of the tasks known
DoAvailableWith(bodies) ==
  /\ \E s \in ScanWith(1, _task_list, _tasks_completed, << >>, bodies) :
       /\ _tasks_completed' = s.completed
       /\ _task_list' = IF s.thrown THEN s.tl ELSE ClearComplete(s.tl)
       /\ ret' = IF s.thrown THEN "fault"
                 ELSE DoAvailableStatus(ClearComplete(s.tl))
       /\ log' = s.log
       /\ hist' = Record(hist, s.log)
  /\ pre' = [tl |-> _task_list, completed |-> _tasks_completed,
            deps |-> _dependencies]
  /\ calls' = calls + 1
  /\ lastOp' = "DoAvailable"
  /\ UNCHANGED <<_tasks_added, _dependencies, added, fresh, idvars, others>>

\* TaskList::AddTask(dep, ...) of a task described by info (a record to
\* which the identity and the dependency are added), but for what is
\* noted of the identity it returns
AddTaskBody(dep, info) ==
  LET id == NextID(_tasks_added)
  IN /\ _task_list' = Append(_task_list, BaseTask(id, dep, Len(added) + 1))
     /\ _tasks_added' = _tasks_added + 1
     /\ added' = Append(added, [id |-> id, dep |-> dep] @@ info)
     /\ hist' = Append(hist, << >>)
     /\ pre' = [tl |-> << >>, completed |-> TaskIDDefault, deps |-> << >>]
     /\ log' = << >>
     /\ lastOp' = "AddTask"
     /\ UNCHANGED <<_dependencies, _tasks_completed, calls, fresh, idvars,
                    others>>

\* TaskID TaskList::AddTask(dep, ...): return id;
AddTaskOf(dep, info) == AddTaskBody(dep, info) /\ ret' = NextID(_tasks_added)

\* ------------------------------------------------------------ two chains
Chains == {"A", "B"}

\* the tasks of chain c added so far, in the order of their addition
ChainTasks(c) == SelectSeq(added, LAMBDA a : a.chain = c)

\* the next task of a chain is added: it depends on the identity AddTask
\* returned for its predecessor in the chain, the first on nothing
ChainAddTask ==
  \E c \in Chains :
     /\ Len(ChainTasks(c)) < ChainLen
     /\ AddTaskOf(IF ChainTasks(c) = << >> THEN TaskIDDefault
                  ELSE ChainTasks(c)[Len(ChainTasks(c))].id,
                  [chain |-> c])

\* DoAvailable once both chains are added; every body reports complete
ChainDoAvailable ==
  /\ Len(added) = 2 * ChainLen
  /\ calls < ChainLen
  /\ DoAvailableWith([k \in DOMAIN added |-> {"complete"}])

ChainNext == ChainAddTask \/ ChainDoAvailable

SpecChains == Init /\ [][ChainNext]_vars

\* ------------------------------------------------------ the driving loop
\* The tasks are added, then DoAvailable is called until it returns
\* complete.  The body of a task reports incomplete a number of times
\* fixed when the task is added (retries), then complete; no body raises
\* a fault.

LiveBodies ==
  [k \in DOMAIN added |->
     IF Len(hist[k]) < added[k].retries THEN {"incomplete"}
     ELSE {"complete"}]

\* the identity AddTask returns is not noted in ret (it is in added), ret
\* holds the results of the loop's calls only
LiveAddTask ==
  /\ calls = 0
  /\ Len(added) < MaxTasks
  /\ \E dep \in DepChoices : \E retries \in 0..MaxRetry :
       AddTaskBody(dep, [retries |-> retries])
  /\ ret' = "none"

\* the last operation was a DoAvailable call and it returned complete
ReturnedComplete ==
  IF lastOp = "DoAvailable" THEN ret = "complete" ELSE FALSE

\* while (list.DoAvailable() != TaskListStatus::complete) {}; every call
\* that does not return complete invokes at least one task or none ever
\* will, so MaxTasks * (MaxRetry + 1) calls are all a list that drains
\* can need
LoopCondition == ~ReturnedComplete /\ calls < MaxTasks * (MaxRetry + 1)

LiveDoAvailable == LoopCondition /\ DoAvailableWith(LiveBodies)

LiveNext == LiveAddTask \/ LiveDoAvailable

SpecLive == Init /\ [][LiveNext]_vars /\ WF_vars(LiveDoAvailable)

\* ------------------------------------------------- the container's tasks
\* The communication routines of the container return to their caller;
\* ReceiveBoundaryBuffers and ReceiveFluxCorrection report whether the
\* exchange is satisfied (the argument report of the two receive tasks).

\* rc.StartReceiving(BoundaryCommSubset::all); return TaskStatus::complete;
StartReceivingTask == "complete"

\* rc.SendFluxCorrection(); return TaskStatus::complete;
SendFluxCorrectionTask == "complete"

\* if (!rc.ReceiveFluxCorrection()) return TaskStatus::incomplete;
\* return TaskStatus::complete;
ReceiveFluxCorrectionTask(report) ==
  IF ~report THEN "incomplete" ELSE "complete"

\* rc.SendBoundaryBuffers(); return TaskStatus::complete;
SendBoundaryBuffersTask == "complete"

\* mutant: the test of the report is the wrong way round
ReceiveBoundaryBuffersTaskInverted(report) ==
  IF report THEN "incomplete" ELSE "complete"

\* if (!rc.ReceiveBoundaryBuffers()) return TaskStatus::incomplete;
\* return TaskStatus::complete;
ReceiveBoundaryBuffersTask(report) ==
  IF ~report THEN "incomplete" ELSE "complete"

\* rc.SetBoundaries(); return TaskStatus::complete;
SetBoundariesTask == "complete"

\* rc.ClearBoundary(BoundaryCommSubset::all); return TaskStatus::complete;
ClearBoundaryTask == "complete"

\* the receive tasks and the other task entry points of the container
ReceiveTasks == {"ReceiveBoundaryBuffersTask", "ReceiveFluxCorrectionTask"}

LocalTasks ==
  {"StartReceivingTask", "SendFluxCorrectionTask", "SendBoundaryBuffersTask",
   "SetBoundariesTask", "ClearBoundaryTask"}

\* what an invocation of the entry point func did, the container's receive
\* (where the entry point asks for it) having reported report
ContainerTask(func, report) ==
  CASE func = "StartReceivingTask" -> StartReceivingTask
    [] func = "SendFluxCorrectionTask" -> SendFluxCorrectionTask
    [] func = "ReceiveFluxCorrectionTask" -> ReceiveFluxCorrectionTask(report)
    [] func = "SendBoundaryBuffersTask" -> SendBoundaryBuffersTask
    [] func = "ReceiveBoundaryBuffersTask" -> ReceiveBoundaryBuffersTask(report)
    [] func = "SetBoundariesTask" -> SetBoundariesTask
    [] func = "ClearBoundaryTask" -> ClearBoundaryTask

\* what the invocations of the body of each added task can do
ContainerBodies ==
  [k \in DOMAIN added |->
     {ContainerTask(added[k].func, report) : report \in BOOLEAN}]

\* a container task is added: without dependency, or depending on the
\* first or on the last task added before it
ContainerAddTask ==
  /\ Len(added) < MaxTasks
  /\ \E func \in ReceiveTasks \cup LocalTasks :
       \E dep \in {TaskIDDefault, TaskID(1), TaskID(Len(added))} :
          AddTaskOf(dep, [func |-> func])

ContainerDoAvailable ==
  /\ calls < MaxCalls
  /\ DoAvailableWith(ContainerBodies)

ContainerNext == ContainerAddTask \/ ContainerDoAvailable \/ Reset

SpecContainer == Init /\ [][ContainerNext]_vars

\* ------------------------------------------------- the TaskID operations
\* the identifiers the TaskID objects start from: one or two bit blocks, in
\* each the first and the last bit set or not
IDs ==
  LET blocks == SUBSET {0, BITBLOCK - 1}
  IN {<< x >> : x \in blocks} \cup {<< x, y >> : x, y \in blocks}

InitID ==
  /\ ListInit
  /\ ida \in IDs
  /\ idb \in IDs
  /\ idc \in IDs

\* a.Set(j) on a new identifier, j the first or last index of a block
IDSet ==
  /\ \E j \in {0, 1, BITBLOCK, BITBLOCK + 1, BITBLOCK + BITBLOCK} :
       ida' = TaskID(j)
  /\ UNCHANGED <<listvars, idb, idc>>

\* a = a | b
IDOr ==
  /\ ida' = TaskIDOr(ida, idb)
  /\ UNCHANGED <<listvars, idb, idc>>

\* c = a | b
IDOrInto ==
  /\ idc' = TaskIDOr(ida, idb)
  /\ UNCHANGED <<listvars, ida, idb>>

\* c.SetFinished(a)
IDSetFinished ==
  /\ idc' = SetFinished(idc, ida)
  /\ UNCHANGED <<listvars, ida, idb>>

\* c.clear()
IDClear ==
  /\ idc' = clear(idc)
  /\ UNCHANGED <<listvars, ida, idb>>

IDNext == IDSet \/ IDOr \/ IDOrInto \/ IDSetFinished \/ IDClear

SpecID == InitID /\ [][IDNext]_vars

\* ------------------------------------------- the completed-set at a Reset
\* Identities of the first and the second bit block are marked complete on
\* the list and the list is Reset; a is any identifier of one or two blocks.

\* the identities marked complete: the first and the last of two blocks
MarkedIDs == {TaskID(j) : j \in {1, BITBLOCK, BITBLOCK + 1, 2 * BITBLOCK}}

InitMark ==
  /\ ListInit
  /\ ida \in IDs
  /\ idb = TaskIDDefault
  /\ idc = TaskIDDefault

\* a call of MarkTaskComplete(id) on the list
MarkTaskCompleteCall ==
  /\ \E id \in MarkedIDs :
       _tasks_completed' = MarkTaskComplete(_tasks_completed, id)
  /\ lastOp' = "MarkTaskComplete"
  /\ pre' = [tl |-> << >>, completed |-> TaskIDDefault, deps |-> << >>]
  /\ ret' = "none"
  /\ UNCHANGED <<_task_list, _tasks_added, _dependencies, added, hist, log,
                 calls, fresh, idvars, others>>

MarkNext == MarkTaskCompleteCall \/ Reset

SpecMark == InitMark /\ [][MarkNext]_vars

\* ------------------------------------------------------- the barrier lists
\* mutant: only the first registered list is asked
IsReadyFirst(deps, lists) ==
  deps = << >> \/ IsComplete(lists[deps[1]]._task_list)

\* bool TaskList::IsReady(): for (auto &l : _dependencies)
\*   if (!l->IsComplete()) return false;   return true;
IsReady(deps, lists) ==
  LET RECURSIVE From(_)
      From(i) == IF i > Len(deps) THEN TRUE
                 ELSE IF ~IsComplete(lists[deps[i]]._task_list) THEN FALSE
                 ELSE From(i + 1)
  IN From(1)

\* the list is given the other list l as a barrier list
RegisterBarrier ==
  /\ Len(_dependencies) < MaxTasks
  /\ \E l \in OtherLists : _dependencies' = Append(_dependencies, l)
  /\ lastOp' = "RegisterBarrier"
  /\ pre' = [tl |-> << >>, completed |-> TaskIDDefault, deps |-> << >>]
  /\ ret' = "none"
  /\ UNCHANGED <<_task_list, _tasks_added, _tasks_completed, added, hist,
                 log, calls, fresh, idvars, others>>

\* mutant: the lists share one completed-set
OtherDoAvailableShared ==
  /\ \E l \in OtherLists :
       \E s \in Scan(1, others[l]._task_list, others[l]._tasks_completed,
                     << >>) :
          /\ others' = [others EXCEPT
               ![l]._task_list = IF s.thrown THEN s.tl ELSE ClearComplete(s.tl),
               ![l]._tasks_completed = s.completed]
          /\ _tasks_completed' = SetFinished(_tasks_completed, s.completed)
  /\ lastOp' = "other"
  /\ pre' = [tl |-> << >>, completed |-> TaskIDDefault, deps |-> << >>]
  /\ ret' = "none"
  /\ UNCHANGED <<_task_list, _tasks_added, _dependencies,
                 added, hist, log, calls, fresh, idvars>>

\* AddTask on another list, the task having no dependency
OtherAddTask ==
  /\ \E l \in OtherLists :
       /\ others[l]._tasks_added < MaxTasks
       /\ others' = [others EXCEPT
            ![l]._task_list =
               Append(@, BaseTask(NextID(others[l]._tasks_added),
                                  TaskIDDefault, others[l]._tasks_added + 1)),
            ![l]._tasks_added = @ + 1]
  /\ lastOp' = "other"
  /\ pre' = [tl |-> << >>, completed |-> TaskIDDefault, deps |-> << >>]
  /\ ret' = "none"
  /\ UNCHANGED <<_task_list, _tasks_added, _dependencies, _tasks_completed,
                 added, hist, log, calls, fresh, idvars>>

\* DoAvailable on another list
OtherDoAvailable ==
  /\ \E l \in OtherLists :
       \E s \in Scan(1, others[l]._task_list, others[l]._tasks_completed,
                     << >>) :
          others' = [others EXCEPT
            ![l]._task_list = IF s.thrown THEN s.tl ELSE ClearComplete(s.tl),
            ![l]._tasks_completed = s.completed]
  /\ lastOp' = "other"
  /\ pre' = [tl |-> << >>, completed |-> TaskIDDefault, deps |-> << >>]
  /\ ret' = "none"
  /\ UNCHANGED <<_task_list, _tasks_added, _dependencies, _tasks_completed,
                 added, hist, log, calls, fresh, idvars>>

\* a call of IsReady on the list
IsReadyCall ==
  /\ lastOp' = "IsReady"
  /\ pre' = [tl |-> << >>, completed |-> TaskIDDefault, deps |-> << >>]
  /\ ret' = IF IsReady(_dependencies, others) THEN "true" ELSE "false"
  /\ UNCHANGED <<_task_list, _tasks_added, _dependencies, _tasks_completed,
                 added, hist, log, calls, fresh, idvars, others>>

BarrierNext ==
  RegisterBarrier \/ OtherAddTask \/ OtherDoAvailable \/ IsReadyCall \/ Reset

SpecBarrier == Init /\ [][BarrierNext]_vars

\* ---------------------------------------------------------- two TaskLists
\* The list and the other list l1 are filled and driven side by side, each
\* with one task less than MaxTasks; l1 may be made a barrier list of the
\* list.

TwoAddTask == Len(added) < MaxTasks - 1 /\ AddTask

TwoDoAvailable == DoAvailable

TwoRegisterBarrier ==
  /\ _dependencies = << >>
  /\ RegisterBarrier
  /\ _dependencies' = << "l1" >>

TwoOtherAddTask ==
  /\ others["l1"]._tasks_added < MaxTasks - 1
  /\ OtherAddTask
  /\ others'["l2"] = others["l2"]

TwoOtherDoAvailable ==
  /\ OtherDoAvailable
  /\ others'["l2"] = others["l2"]

TwoNext ==
  \/ TwoAddTask
  \/ TwoDoAvailable
  \/ TwoRegisterBarrier
  \/ TwoOtherAddTask
  \/ TwoOtherDoAvailable

SpecTwoLists == Init /\ [][TwoNext]_vars

\* ------------------------------------------------------------------ claims
\* the tasks (by AddTask number) that are pending
PendingKs == {_task_list[i].k : i \in DOMAIN _task_list}

\* the last DoAvailable call invoked task k and its body did status
InLog(k, status) == \E n \in DOMAIN log : log[n].k = k /\ log[n].status = status

\* the last DoAvailable call invoked task k
Invoked(k) == \E n \in DOMAIN log : log[n].k = k

\* the body of task k has reported complete
Reported(k) == \E i \in DOMAIN hist[k] : hist[k][i] = "complete"

\* the last operation was a DoAvailable call that returned a status
Returned == lastOp = "DoAvailable" /\ ret # "fault"

\* the body of task k had reported complete before the last DoAvailable call
PriorReported(k) ==
  \E i \in 1..(Len(hist[k]) - Cardinality({n \in DOMAIN log : log[n].k = k})) :
     hist[k][i] = "complete"

\* the body of task k had reported complete before invocation n of the last
\* DoAvailable call
ReportedBeforeEntry(k, n) ==
  \/ PriorReported(k)
  \/ \E m \in 1..(n - 1) : log[m].k = k /\ log[m].status = "complete"

\* the bits of the completed-set at the moment the scan of the last
\* DoAvailable call reached position i of the pending collection
CompletedWhenReached(i) ==
  Bits(pre.completed) \cup
    UNION {Bits(pre.tl[j]._myid) :
             j \in {j \in 1..(i - 1) : InLog(pre.tl[j].k, "complete")}}

\* the last position the scan of the last DoAvailable call reached: the end
\* of the pending collection, or the task whose body raised a fault
ScanEnd ==
  IF ret = "fault"
  THEN CHOOSE i \in DOMAIN pre.tl : pre.tl[i].k = log[Len(log)].k
  ELSE Len(pre.tl)

\* C1: a body is invoked only when every identity bit of its dependency is
\* in the completed-set, and every such bit is the identity of a task of the
\* list whose body had reported complete before that invocation (so a task
\* depending on A | B is not invoked before both A and B reported complete).
C1_InvokedOnlyWhenDepsComplete ==
  lastOp = "DoAvailable" =>
    \A n \in DOMAIN log :
      /\ Bits(log[n].dep) \subseteq Bits(log[n].before)
      /\ \A j \in Bits(log[n].dep) :
           \E k \in DOMAIN added :
             Bits(added[k].id) = {j} /\ ReportedBeforeEntry(k, n)

\* a task depending on the union of two identities has been invoked
C1_Witness ==
  /\ lastOp = "DoAvailable"
  /\ \E n \in DOMAIN log : Cardinality(Bits(log[n].dep)) = 2

\* C2: a DoAvailable call removes a task from the pending collection only
\* if its body reported complete in that call; a task whose body reported
\* incomplete stays pending and its identity is not in the completed-set.
C2_RemovedOnlyWhenComplete ==
  lastOp = "DoAvailable" =>
    \A i \in DOMAIN pre.tl :
      LET t == pre.tl[i]
      IN /\ t.k \notin PendingKs => InLog(t.k, "complete")
         /\ InLog(t.k, "incomplete") =>
              /\ t.k \in PendingKs
              /\ Bits(t._myid) \cap Bits(_tasks_completed) = {}

\* C3: a DoAvailable call invokes pending tasks in insertion order, each at
\* most once, and exactly those whose dependency is satisfied by the
\* completed-set when the scan reaches them (a scan ends at a fault).
C3_OneScan ==
  lastOp = "DoAvailable" =>
    /\ \A m, n \in DOMAIN log : m < n => log[m].k < log[n].k
    /\ {log[n].k : n \in DOMAIN log} =
         {pre.tl[i].k :
            i \in {i \in 1..ScanEnd :
                     Bits(pre.tl[i]._dep) \subseteq CompletedWhenReached(i)}}

\* a call that returned invoked two tasks and left one uninvoked
C3_Witness ==
  /\ Returned
  /\ Len(log) = 2
  /\ Len(pre.tl) = 3

\* C4: when DoAvailable returns, no task that reported complete is pending,
\* and it returns complete iff nothing is pending, running iff something is.
C4_RetireThenStatus ==
  Returned =>
    /\ \A k \in PendingKs : ~Reported(k)
    /\ ret = "complete" <=> _task_list = << >>
    /\ ret = "running" <=> _task_list # << >>

\* a call retired a task, left another pending and returned running
C4_Witness ==
  /\ Returned
  /\ ret = "running"
  /\ Len(_task_list) < Len(pre.tl)
  /\ \E k \in DOMAIN added : InLog(k, "complete")

\* C5: a scan that ends with tasks pending and none of them ready (no body
\* invoked, the pending count unchanged) makes DoAvailable return stuck.
C5_StuckReported ==
  (Returned /\ _task_list # << >> /\ log = << >> /\ Len(_task_list) = Len(pre.tl))
    => ret = "stuck"

C7_RetryLaw ==
  \A k \in DOMAIN hist :
    \A N \in 0..(Len(hist[k]) - 1) :
      ( /\ \A i \in 1..N : hist[k][i] = "incomplete"
        /\ hist[k][N + 1] = "complete" )
      => (Len(hist[k]) = N + 1 /\ k \notin PendingKs)

\* C8: the k-th AddTask call since construction or the last Reset returns
\* the identity of index k, so identities increase in insertion order and
\* no two tasks added to the list share one.
C8_FreshIdentities ==
  /\ \A k \in DOMAIN added : Bits(added[k].id) = {k}
  /\ \A j, k \in DOMAIN added : j # k => ~TaskIDEq(added[j].id, added[k].id)
  /\ \A i \in DOMAIN _task_list :
       _task_list[i]._myid = added[_task_list[i].k].id
  /\ lastOp = "AddTask" => ret = added[Len(added)].id

\* the second AddTask call returned its identity after the first task had
\* been retired
C8_Witness ==
  /\ lastOp = "AddTask"
  /\ Len(added) = 2
  /\ Bits(ret) = {2}
  /\ Len(_task_list) = 1

\* C9: when DoAvailable returns, the completed-set has exactly the identity
\* bits of the tasks added since the last Reset whose body reported complete.
C9_CompletedSetExact ==
  Returned =>
    Bits(_tasks_completed) =
      UNION {Bits(added[k].id) : k \in {k \in DOMAIN added : Reported(k)}}

\* a call returned with one task complete and another still pending
C9_Witness ==
  /\ Returned
  /\ \E k \in DOMAIN added : Reported(k)
  /\ \E k \in DOMAIN added : ~Reported(k)

\* C10: AddTask and DoAvailable never remove a bit from the completed-set.
C10_CompletedSetGrows ==
  [][lastOp' \in {"AddTask", "DoAvailable"}
       => Bits(_tasks_completed) \subseteq Bits(_tasks_completed')]_vars

\* a DoAvailable call added a bit to a completed-set that already had one
C10_Witness ==
  /\ lastOp = "DoAvailable"
  /\ Bits(pre.completed) # {}
  /\ Bits(pre.completed) # Bits(_tasks_completed)

\* ------------------------------------------------------ claims C11..C20
\* DoAvailable's test of a task with dependency d against completed-set c
Satisfied(c, d) == Ready(c, BaseTask(TaskIDDefault, d, 0))

\* C11 (as claimed): a | b is satisfied by c if and only if a is satisfied
\* by c or b is satisfied by c.
C11_UnionSatisfiedIfEither ==
  Satisfied(idc, TaskIDOr(ida, idb))
    <=> (Satisfied(idc, ida) \/ Satisfied(idc, idb))

\* C11 (amended): a | b is satisfied by c if and only if a is satisfied by
\* c and b is satisfied by c.
C11_UnionSatisfiedIffBoth ==
  Satisfied(idc, TaskIDOr(ida, idb))
    <=> (Satisfied(idc, ida) /\ Satisfied(idc, idb))

\* a is satisfied, b (of another block count) is not, and neither is a | b
C11_Witness ==
  /\ Bits(ida) # {}
  /\ Satisfied(idc, ida)
  /\ ~Satisfied(idc, idb)
  /\ Len(ida) # Len(idb)
  /\ ~Satisfied(idc, TaskIDOr(ida, idb))

\* C12: once DoAvailable has returned complete, a further DoAvailable call
\* with no AddTask in between invokes no body, leaves the pending
\* collection, the completed-set and the identity counter unchanged, and
\* returns complete again.
C12_Idempotent ==
  [][(lastOp = "DoAvailable" /\ ret = "complete" /\ calls' = calls + 1)
       => /\ log' = << >>
          /\ hist' = hist
          /\ _task_list' = _task_list
          /\ _tasks_completed' = _tasks_completed
          /\ _tasks_added' = _tasks_added
          /\ ret' = "complete"]_vars

\* a DoAvailable call made on a list that an earlier call had drained (it
\* found the pending collection empty although tasks had been added) has
\* returned complete
C12_Witness ==
  /\ lastOp = "DoAvailable"
  /\ calls >= 2
  /\ Len(added) >= 1
  /\ pre.tl = << >>
  /\ Bits(_tasks_completed) # {}
  /\ ret = "complete"

\* C13: Reset, called in any state, leaves the pending collection empty,
\* the completed-set with no bit set and the identity counter at zero; the
\* next AddTask returns the identity of index 1, and the task it adds is not
\* ready if its dependency names an identity completed before the Reset.
C13_ResetClears ==
  [][/\ lastOp' = "Reset"
          => /\ _task_list' = << >>
             /\ Size(_task_list') = 0
             /\ Bits(_tasks_completed') = {}
             /\ _tasks_added' = 0
     /\ (lastOp = "Reset" /\ lastOp' = "AddTask")
          => /\ Bits(ret') = {1}
             /\ Bits(_task_list'[1]._myid) = {1}
             /\ Bits(_task_list'[1]._dep) \cap Bits(pre.completed) # {}
                  => ~Ready(_tasks_completed', _task_list'[1])]_vars

\* Reset was called on a list with a pending task and completed identities
C13_Witness ==
  /\ lastOp = "Reset"
  /\ pre.tl # << >>
  /\ Bits(pre.completed) # {}
  /\ _task_list = << >>

\* C14: after a Reset, the list behaves under any sequence of AddTask and
\* DoAvailable calls as a newly constructed list (fresh) does under the same
\* calls with bodies doing the same: the same identities returned, the same
\* invocations in the same order, the same DoAvailable results and the same
\* completed-set.
C14_ResetRoundTrip ==
  /\ lastOp = "AddTask" => TaskIDEq(fresh.ret, ret)
  /\ lastOp # "AddTask" => fresh.ret = ret
  /\ Len(fresh.log) = Len(log)
  /\ \A n \in DOMAIN log :
       n \in DOMAIN fresh.log
         => fresh.log[n].k = log[n].k /\ fresh.log[n].status = log[n].status
  /\ TaskIDEq(fresh.completed, _tasks_completed)
  /\ Len(fresh.tl) = Len(_task_list)

\* a list that was Reset with completed identities has been refilled and a
\* DoAvailable call on it has invoked a task that has a dependency
C14_Witness ==
  /\ fresh.afterReset
  /\ lastOp = "DoAvailable"
  /\ \E n \in DOMAIN log : Bits(log[n].dep) # {}
  /\ Bits(_tasks_completed) # {}

\* C15: IsReady returns true if and only if every registered barrier list
\* has an empty pending collection: false when one of them (whichever its
\* place among the registered lists) has a pending task, true for a list
\* with no registered barrier list.
C15_IsReadyIffBarriersDrained ==
  lastOp = "IsReady"
    => /\ ret = "true"
            <=> \A i \in DOMAIN _dependencies :
                   Size(others[_dependencies[i]]._task_list) = 0
       /\ (\E i \in DOMAIN _dependencies :
              others[_dependencies[i]]._task_list # << >>) => ret = "false"
       /\ _dependencies = << >> => ret = "true"

\* IsReady returned false on a list with two registered barrier lists, the
\* first registered of them drained by DoAvailable and the other one
\* still with a pending task
C15_Witness ==
  /\ lastOp = "IsReady"
  /\ ret = "false"
  /\ Len(_dependencies) >= 2
  /\ others[_dependencies[1]]._task_list = << >>
  /\ others[_dependencies[1]]._tasks_added > 0
  /\ others[_dependencies[2]]._task_list # << >>

\* C16: the tasks a scan invokes are invoked in the order in which they
\* were added, and the pending collection is in insertion order after every
\* operation (retiring tasks keeps the relative order of the others), so
\* every later scan goes in insertion order too.
C16_InsertionOrder ==
  /\ \A n, m \in DOMAIN log : n < m => log[n].k < log[m].k
  /\ \A i, j \in DOMAIN _task_list :
       i < j => _task_list[i].k < _task_list[j].k
  /\ lastOp = "DoAvailable"
       => \A i, j \in DOMAIN _task_list :
            i < j => \E a, b \in DOMAIN pre.tl :
                        /\ a < b
                        /\ pre.tl[a].k = _task_list[i].k
                        /\ pre.tl[b].k = _task_list[j].k

\* after the second of three tasks had been retired, a later DoAvailable
\* call invoked the first and the third, and both are still pending
C16_Witness ==
  /\ Returned
  /\ calls >= 2
  /\ Len(pre.tl) = 2
  /\ pre.tl[1].k = 1
  /\ pre.tl[2].k = 3
  /\ Len(log) = 2
  /\ Len(_task_list) = 2

\* C17: a fault raised by a body leaves DoAvailable at once: the call
\* returns no status, the faulting invocation is the last one of the call
\* (no task later in the pending collection is invoked), and the faulting
\* task stays pending, its completion flag and the membership of its
\* identity in the completed-set being what they were before the call.
C17_FaultPropagates ==
  (lastOp = "DoAvailable" /\ \E n \in DOMAIN log : log[n].status = "throw")
    => /\ ret = "fault"
       /\ log[Len(log)].status = "throw"
       /\ \A n \in 1..(Len(log) - 1) : log[n].status # "throw"
       /\ Len(_task_list) = Len(pre.tl)
       /\ \A i \in DOMAIN pre.tl :
            /\ i > ScanEnd => ~Invoked(pre.tl[i].k)
            /\ i = ScanEnd
                 => /\ _task_list[i] = pre.tl[i]
                    /\ Bits(pre.tl[i]._myid) \subseteq Bits(_tasks_completed)
                         <=> Bits(pre.tl[i]._myid) \subseteq Bits(pre.completed)

\* the body of the second of three tasks without dependency raised a fault
\* after the first had reported complete: the third was not invoked
C17_Witness ==
  /\ lastOp = "DoAvailable"
  /\ ret = "fault"
  /\ Len(pre.tl) = 3
  /\ Len(log) = 2
  /\ log[1].status = "complete"
  /\ log[2].k = pre.tl[2].k
  /\ Bits(pre.tl[3]._dep) = {}
  /\ ~TaskIsComplete(_task_list[2])

\* C18: if every task added names in its dependency (one identity or a
\* union) only tasks added before it, and every body invoked so far has
\* reported complete, then the DoAvailable call just made has invoked every
\* task that was pending exactly once, every task added has been invoked
\* exactly once, the pending collection is empty and the call returned
\* complete; so one call drains a list filled in such an order.
C18_OrderedListDrainsInOneScan ==
  (/\ lastOp = "DoAvailable"
   /\ \A k \in DOMAIN added : Bits(added[k].dep) \subseteq 1..(k - 1)
   /\ \A k \in DOMAIN hist : \A i \in DOMAIN hist[k] : hist[k][i] = "complete")
    => /\ \A k \in DOMAIN added : hist[k] = << "complete" >>
       /\ Len(log) = Len(pre.tl)
       /\ \A i \in DOMAIN pre.tl :
            Cardinality({n \in DOMAIN log : log[n].k = pre.tl[i].k}) = 1
       /\ _task_list = << >>
       /\ ret = "complete"

\* T1 without dependency, T2 depending on T1 and T3 depending on T1 | T2
\* were added, and the one DoAvailable call made invoked all three
C18_Witness ==
  /\ lastOp = "DoAvailable"
  /\ calls = 1
  /\ Len(added) = 3
  /\ Bits(added[1].dep) = {}
  /\ Bits(added[2].dep) = {1}
  /\ Bits(added[3].dep) = {1, 2}
  /\ Len(log) = 3
  /\ \A n \in DOMAIN log : log[n].status = "complete"
  /\ _task_list = << >>
  /\ ret = "complete"

\* task p has been invoked in every DoAvailable call made, its body
\* reporting incomplete each time but possibly the last, and the body of
\* every other task invoked has reported complete at its first invocation
RetryScenario(p) ==
  /\ lastOp = "DoAvailable"
  /\ calls >= 1
  /\ Len(hist[p]) = calls
  /\ \A i \in 1..(calls - 1) : hist[p][i] = "incomplete"
  /\ hist[p][calls] \in TaskStatus
  /\ \A q \in DOMAIN added \ {p} : hist[q] \in {<< >>, << "complete" >>}

\* what is claimed of the calls in the scenario of p: running as long as p
\* reports incomplete, complete at the call in which p reports complete,
\* and no invocation of a task depending on p before that call
RetryOutcome(p) ==
  /\ hist[p][calls] = "incomplete" => ret = "running"
  /\ hist[p][calls] = "complete" => ret = "complete"
  /\ \A q \in DOMAIN added :
       p \in Bits(added[q].dep)
         => /\ hist[p][calls] = "incomplete" => hist[q] = << >>
            /\ hist[q] # << >> => InLog(q, "complete")

\* C19 (as claimed): if a ready task P reports incomplete at its first N
\* invocations and complete at invocation N+1 and every other task reports
\* complete at its first invocation, the first N DoAvailable calls return
\* running, call N+1 returns complete, and no task depending on P is
\* invoked before call N+1.
C19_RetryUntilComplete ==
  \A p \in DOMAIN added : RetryScenario(p) => RetryOutcome(p)

\* C19 (amended): the same, for lists in which the dependency of every
\* task other than P names only tasks added before it.
C19_RetryUntilCompleteOrdered ==
  \A p \in DOMAIN added :
     (/\ RetryScenario(p)
      /\ \A q \in DOMAIN added \ {p} : Bits(added[q].dep) \subseteq 1..(q - 1))
       => RetryOutcome(p)

\* P reported incomplete twice and complete at the third call, in which a
\* task depending on P was invoked for the first time, and the third call
\* returned complete
C19_Witness ==
  /\ lastOp = "DoAvailable"
  /\ calls = 3
  /\ ret = "complete"
  /\ \E p, q \in DOMAIN added :
       /\ hist[p] = << "incomplete", "incomplete", "complete" >>
       /\ p \in Bits(added[q].dep)
       /\ p < q
       /\ hist[q] = << "complete" >>
       /\ RetryScenario(p)

\* C20: a task whose dependency names an identity that no task added to
\* the list carries has never been invoked and is pending, so the pending
\* collection is not empty and no DoAvailable call made since has returned
\* complete.
C20_OrphanNeverRuns ==
  \A k \in DOMAIN added :
     (\E j \in Bits(added[k].dep) : j > Len(added))
       => /\ hist[k] = << >>
          /\ k \in PendingKs
          /\ Size(_task_list) > 0
          /\ lastOp = "DoAvailable" => ret # "complete"

\* three DoAvailable calls were made on a list with a task depending on
\* the identity of index BITBLOCK + 1, the other tasks being retired
C20_Witness ==
  /\ lastOp = "DoAvailable"
  /\ calls = MaxCalls
  /\ ret = "running"
  /\ Len(added) >= 2
  /\ Len(_task_list) = 1
  /\ Bits(_task_list[1]._dep) = {BITBLOCK + 1}
  /\ hist[_task_list[1].k] = << >>

\* ------------------------------------------------------ claims C21..C30
\* C21: two chains of ChainLen tasks each, every task depending on its
\* predecessor in its chain and every body reporting complete, added with
\* the AddTask calls of the two chains interleaved in any order, are both
\* drained when ChainLen DoAvailable calls have been made: the call has
\* returned complete, nothing is pending and every task has run once (as
\* after each of the calls before it).
C21_ChainsDrained ==
  (lastOp = "DoAvailable" /\ Len(added) = 2 * ChainLen /\ calls <= ChainLen)
    => /\ ret = "complete"
       /\ _task_list = << >>
       /\ \A k \in DOMAIN added : hist[k] = << "complete" >>
       /\ Bits(_tasks_completed) = 1..(2 * ChainLen)

\* the two chains were added alternately, so that every task but the first
\* two depends on the task added two places before it, and ChainLen
\* DoAvailable calls have been made
C21_Witness ==
  /\ lastOp = "DoAvailable"
  /\ calls = ChainLen
  /\ Len(added) = 2 * ChainLen
  /\ \A k \in DOMAIN added :
       /\ added[k].chain = (IF k % 2 = 1 THEN "A" ELSE "B")
       /\ Bits(added[k].dep) = (IF k <= 2 THEN {} ELSE {k - 2})
  /\ ret = "complete"

\* the zero identifier, default-constructed or built from index 0, has no
\* bit set and is satisfied by the completed-set of the list, by that set
\* emptied and by the completed-set of a new list
ZeroIdentifier ==
  /\ Bits(TaskIDDefault) = {}
  /\ Bits(TaskID(0)) = {}
  /\ TaskIDEq(TaskIDDefault, TaskID(0))
  /\ \A zero \in {TaskIDDefault, TaskID(0)} :
       \A c \in {_tasks_completed, clear(_tasks_completed), TaskIDDefault} :
          Satisfied(c, zero)

C23_ContainerTaskStatus ==
  /\ \A func \in ReceiveTasks :
       /\ ContainerTask(func, FALSE) = "incomplete"
       /\ ContainerTask(func, TRUE) = "complete"
  /\ \A func \in LocalTasks :
       \A report \in BOOLEAN : ContainerTask(func, report) = "complete"
  /\ \A k \in DOMAIN added :
       /\ \A i \in 1..(Len(hist[k]) - 1) : hist[k][i] = "incomplete"
       /\ Cardinality({n \in DOMAIN log : log[n].k = k}) <= 1
       /\ added[k].func \in LocalTasks => hist[k] \in {<< >>, << "complete" >>}
       /\ added[k].func \in ReceiveTasks
            => \A i \in DOMAIN hist[k] : hist[k][i] \in TaskStatus
       /\ lastOp = "DoAvailable"
            => /\ hist[k] # << >> /\ hist[k][Len(hist[k])] = "complete"
                    => k \notin PendingKs
               /\ (k \in PendingKs /\ hist[k] # << >>)
                    => /\ Invoked(k)
                       /\ added[k].func \in ReceiveTasks
                       /\ hist[k][Len(hist[k])] = "incomplete"

\* a ReceiveBoundaryBuffersTask was polled in three scans, in the third
\* the receive succeeded, and the SetBoundariesTask depending on it was
\* invoked once, in that scan
C23_Witness ==
  /\ lastOp = "DoAvailable"
  /\ calls = 3
  /\ \E k, d \in DOMAIN added :
       /\ added[k].func = "ReceiveBoundaryBuffersTask"
       /\ hist[k] = << "incomplete", "incomplete", "complete" >>
       /\ added[d].func = "SetBoundariesTask"
       /\ Bits(added[d].dep) = {k}
       /\ hist[d] = << "complete" >>
       /\ InLog(d, "complete")

\* every dependency names identities of tasks added to the list only, and
\* the dependency relation is acyclic (the tasks can be ranked so that
\* every task ranks above the tasks it depends on)
WellFormed ==
  /\ \A k \in DOMAIN added : Bits(added[k].dep) \subseteq DOMAIN added
  /\ \E rank \in [DOMAIN added -> DOMAIN added] :
       \A k \in DOMAIN added :
          \A j \in Bits(added[k].dep) \cap DOMAIN added : rank[j] < rank[k]

\* DoAvailable has returned complete, every task added has been invoked,
\* has reported complete and is retired
Drained ==
  /\ ReturnedComplete
  /\ _task_list = << >>
  /\ \A k \in DOMAIN added :
       hist[k] # << >> /\ hist[k][Len(hist[k])] = "complete"

\* C24: if every dependency names only identities of tasks of the list,
\* the dependency relation is acyclic, no body raises a fault and every
\* body reports complete after finitely many invocations, the loop that
\* keeps calling DoAvailable eventually receives complete, every task
\* added having been invoked and retired.
C24_LoopTerminates == (calls >= 1 /\ WellFormed) ~> Drained

\* the loop has drained, in more than MaxTasks calls, a list in which a
\* task depends on a task added after it and some body reported
\* incomplete MaxRetry times
C24_Witness ==
  /\ WellFormed
  /\ Drained
  /\ calls > MaxTasks
  /\ \E k \in DOMAIN added : \E j \in Bits(added[k].dep) : j > k
  /\ \E k \in DOMAIN added : Len(hist[k]) = MaxRetry + 1

\* C25: while a registered barrier list still has a pending task (IsReady
\* is false), a DoAvailable call on the list invokes no body.
C25_BarrierGatesDoAvailable ==
  (lastOp = "DoAvailable" /\ ~IsReady(_dependencies, others)) => log = << >>


\* the list is in the state that the list driven alone (fresh) is in after
\* the same AddTask and DoAvailable calls with bodies doing the same: the
\* same invocations in the same order with the same outcomes in the last
\* DoAvailable call, the same result of the last call, the same pending
\* tasks, completed-set and identity counter
SameAsAlone ==
  /\ Len(fresh.log) = Len(log)
  /\ \A n \in DOMAIN log :
       n \in DOMAIN fresh.log
         => fresh.log[n].k = log[n].k /\ fresh.log[n].status = log[n].status
  /\ lastOp = "DoAvailable" => fresh.ret = ret
  /\ lastOp = "AddTask" => TaskIDEq(fresh.ret, ret)
  /\ Len(fresh.tl) = Len(_task_list)
  /\ \A i \in DOMAIN _task_list :
       i \in DOMAIN fresh.tl => fresh.tl[i] = _task_list[i]
  /\ TaskIDEq(fresh.completed, _tasks_completed)
  /\ fresh.n = _tasks_added

\* C30: with no barrier list registered, whatever the interleaving of the
\* AddTask and DoAvailable calls on the two lists, the list has the
\* invocations, results and completed-set it has when driven alone, a call
\* on the other list changes nothing of the list (pending collection,
\* completed-set, identity counter), and a call on the list changes
\* nothing of the other list.
C30_ListsIndependent ==
  [][_dependencies = << >>
       => /\ SameAsAlone'
          /\ others' # others
               => UNCHANGED <<_task_list, _tasks_added, _tasks_completed,
                              hist, log>>
          /\ <<_task_list, _tasks_added, _tasks_completed>>'
                # <<_task_list, _tasks_added, _tasks_completed>>
               => others' = others]_vars

\* the lists were driven in turn: the other list has a retired and a
\* pending task, and the list, with no barrier list, has had a second
\* DoAvailable call, which invoked a task again
C30_Witness ==
  /\ _dependencies = << >>
  /\ lastOp = "DoAvailable"
  /\ calls >= 2
  /\ \E k \in DOMAIN hist : Len(hist[k]) = 2 /\ Invoked(k)
  /\ others["l1"]._tasks_added = 2
  /\ Len(others["l1"]._task_list) = 1
  /\ Bits(others["l1"]._tasks_completed) # {}


\* C26: when DoAvailable returns after a scan in which every invoked body
\* reported complete, no task left in the pending collection has a
\* dependency that the completed-set satisfies, whatever the order in
\* which the tasks were added.
C26_MaximalProgress ==
  (Returned /\ \A n \in DOMAIN log : log[n].status = "complete")
    => \A i \in DOMAIN _task_list : ~Ready(_tasks_completed, _task_list[i])

\* C27: a task whose body has reported complete is never invoked again:
\* no invocation of a body follows one in which it reported complete.
C27_CompleteNeverInvokedAgain ==
  \A k \in DOMAIN hist :
     \A i \in 1..(Len(hist[k]) - 1) : hist[k][i] # "complete"

\* C28: the completion state stored in a pending task that has been
\* invoked and reported incomplete differs from the one stored in a
\* pending task that has never been invoked.
C28_StoredStateTellsInvoked ==
  \A i, j \in DOMAIN _task_list :
     (/\ hist[_task_list[i].k] # << >>
      /\ \A n \in DOMAIN hist[_task_list[i].k] :
           hist[_task_list[i].k][n] = "incomplete"
      /\ hist[_task_list[j].k] = << >>)
       => _task_list[i]._complete # _task_list[j]._complete

\* C29: after every AddTask and every DoAvailable call that returns, each
\* task added since the last Reset is either pending with its completion
\* flag unset or retired having reported complete, Size() is the number of
\* tasks added minus the number that reported complete, and no pending
\* task carries a set completion flag.
C29_TaskConservation ==
  (lastOp = "AddTask" \/ Returned)
    => /\ \A k \in DOMAIN added :
            \/ /\ k \in PendingKs
               /\ ~Reported(k)
               /\ \A i \in DOMAIN _task_list :
                    _task_list[i].k = k => ~TaskIsComplete(_task_list[i])
            \/ k \notin PendingKs /\ Reported(k)
       /\ Size(_task_list)
            = Len(added) - Cardinality({k \in DOMAIN added : Reported(k)})
       /\ \A i \in DOMAIN _task_list : ~TaskIsComplete(_task_list[i])


\* the tasks (by AddTask number) that have been retired: their body has
\* reported complete and they are no longer pending
Retired == {k \in DOMAIN added : Reported(k) /\ k \notin PendingKs}

\* the dependency of task names identities, all of them of retired tasks
DependsOnRetired(task, retired) ==
  /\ Bits(task._dep) # {}
  /\ Bits(task._dep) \subseteq UNION {Bits(added[k].id) : k \in retired}

\* the tasks that were retired before the last DoAvailable call
RetiredBefore ==
  {k \in DOMAIN added : PriorReported(k)
                        /\ \A i \in DOMAIN pre.tl : pre.tl[i].k # k}

\* C31: AddTask changes only the tail of the pending collection and the
\* identity counter: it invokes no body, leaves the completed-set, the
\* barrier lists and every already pending task (identity, dependency,
\* position, completion flag) unchanged and increases Size() by exactly one;
\* a task added with a dependency on identities of retired tasks is ready
\* when it is added, and the next scan that reaches it invokes it.
C31_AddTaskFrame ==
  [][/\ (lastOp' = "AddTask" /\ added' # added) =>
          /\ log' = << >>
          /\ \A k \in DOMAIN hist : hist'[k] = hist[k]
          /\ hist'[Len(hist')] = << >>
          /\ _tasks_completed' = _tasks_completed
          /\ _dependencies' = _dependencies
          /\ \A i \in DOMAIN _task_list : _task_list'[i] = _task_list[i]
          /\ Size(_task_list') = Size(_task_list) + 1
          /\ _tasks_added' = _tasks_added + 1
          /\ DependsOnRetired(_task_list'[Len(_task_list')], Retired)
               => Ready(_tasks_completed', _task_list'[Len(_task_list')])
     /\ lastOp' = "DoAvailable" =>
          \A i \in DOMAIN _task_list :
             (DependsOnRetired(_task_list[i], Retired) /\ i <= ScanEnd')
               => \E n \in DOMAIN log' : log'[n].k = _task_list[i].k
    ]_vars

\* a task is added, with a pending task before it, depending on the identity
\* of a task retired by an earlier scan
C31_Witness ==
  /\ lastOp = "AddTask"
  /\ Len(_task_list) >= 2
  /\ DependsOnRetired(_task_list[Len(_task_list)], Retired)
  /\ Ready(_tasks_completed, _task_list[Len(_task_list)])


\* C32: DoAvailable on a list whose pending collection is empty (no task
\* ever added, just Reset, or every task retired) invokes no body, changes
\* neither the pending collection nor the completed-set and returns
\* complete; no DoAvailable call returns nothing_to_do.
C32_EmptyListComplete ==
  lastOp = "DoAvailable" =>
    /\ ret # "nothing_to_do"
    /\ pre.tl = << >> =>
         /\ log = << >>
         /\ ret = "complete"
         /\ _task_list = << >>
         /\ _tasks_completed = pre.completed

\* DoAvailable has been called on a list that was Reset after tasks had
\* completed and has been given no task since
C32_Witness ==
  /\ lastOp = "DoAvailable"
  /\ pre.tl = << >>
  /\ added = << >>
  /\ fresh.afterReset
  /\ ret = "complete"


\* C33: Reset drops every registered barrier list, so IsReady is true in
\* the state Reset leaves, and a call of it right after Reset returns true,
\* whatever the pending collections of the lists registered before; Reset
\* changes nothing in the other lists.
C33_ResetDropsBarriers ==
  [][/\ lastOp' = "Reset"
          => /\ _dependencies' = << >>
             /\ IsReady(_dependencies', others')
             /\ others' = others
     /\ (lastOp = "Reset" /\ lastOp' = "IsReady") => ret' = "true"
    ]_vars

\* Reset was called on a list that was not ready: a list registered as its
\* barrier list had, and still has, a pending task
C33_Witness ==
  /\ lastOp = "Reset"
  /\ ~IsReady(pre.deps, others)
  /\ \E i \in DOMAIN pre.deps : others[pre.deps[i]]._task_list # << >>
  /\ IsReady(_dependencies, others)


\* ------------------------------------------------------ claims C34..C36
\* the identifier t with one more bit block, no bit of it set
Padded(t) == Append(t, {})

\* C34: the satisfaction check is true if and only if the bits of the
\* dependency are a subset of the bits of the completed-set, whatever the
\* block counts of the two; a dependency with a bit in a block the
\* completed-set does not have (index BITBLOCK + 1 against one block) is
\* not satisfied, and a further block without bits on either side does not
\* change the result.
C34_SatisfiedIffSubset ==
  /\ \A c, d \in {ida, idb, idc} :
        /\ Satisfied(c, d) <=> Bits(d) \subseteq Bits(c)
        /\ Satisfied(Padded(c), d) <=> Satisfied(c, d)
        /\ Satisfied(c, Padded(d)) <=> Satisfied(c, d)
        /\ (\E i \in DOMAIN d : i \notin DOMAIN c /\ d[i] # {})
             => ~Satisfied(c, d)
  /\ Len(idc) = 1 => ~Satisfied(idc, TaskID(BITBLOCK + 1))

\* the dependency a has two blocks with a bit in the second, the
\* completed-set c has one block holding every bit of a's first block, and
\* a is not satisfied by c; the dependency b, of two blocks with no bit in
\* the second, is
C34_Witness ==
  /\ Len(ida) = 2 /\ Len(idb) = 2 /\ Len(idc) = 1
  /\ ida[2] # {} /\ ida[1] # {} /\ ida[1] \subseteq idc[1]
  /\ ~Satisfied(idc, ida)
  /\ idb[2] = {} /\ idb[1] # {}
  /\ Satisfied(idc, idb)


\* C35: the union a | b has exactly the bits set in a or in b, whatever the
\* block counts of the two and across the block boundary (index BITBLOCK
\* with index BITBLOCK + 1); the operation is commutative, associative and
\* idempotent, and a step c = a | b leaves a and b as they were.
C35_UnionExact ==
  [][/\ \A a, b \in {ida, idb, idc} :
          /\ Bits(TaskIDOr(a, b)) = Bits(a) \cup Bits(b)
          /\ Len(TaskIDOr(a, b)) >= Max(Len(a), Len(b))
          /\ TaskIDEq(TaskIDOr(a, b), TaskIDOr(b, a))
          /\ TaskIDEq(TaskIDOr(a, a), a)
          /\ \A c \in {ida, idb, idc} :
                TaskIDEq(TaskIDOr(TaskIDOr(a, b), c),
                         TaskIDOr(a, TaskIDOr(b, c)))
     /\ Bits(TaskIDOr(TaskID(BITBLOCK), TaskID(BITBLOCK + 1)))
          = {BITBLOCK, BITBLOCK + 1}
     /\ (idc' = TaskIDOr(ida, idb) /\ idc' # idc)
          => /\ ida' = ida
             /\ idb' = idb
             /\ Bits(idc') = Bits(ida) \cup Bits(idb)
    ]_vars

\* c holds the union of a, of one block with its last bit set, and b, of
\* two blocks with the first bit of the second set: the indices BITBLOCK
\* and BITBLOCK + 1 are both in it
C35_Witness ==
  /\ Len(ida) = 1 /\ Len(idb) = 2
  /\ BITBLOCK \in Bits(ida)
  /\ BITBLOCK + 1 \in Bits(idb)
  /\ idc = TaskIDOr(ida, idb)
  /\ Len(idc) = 2
  /\ {BITBLOCK, BITBLOCK + 1} \subseteq Bits(idc)


\* the indices identifiers are built from: those of two blocks and the
\* first of a third
Indices == 0..(2 * BITBLOCK + 1)

\* C36: two identifiers are equal if and only if they have the same set
\* bits, whatever their block counts; identifiers built from the indices j
\* and k are equal if and only if j = k; the completed-set Reset leaves,
\* with the block count it had, equals a newly constructed zero identifier.
C36_EqualIffSameBits ==
  /\ \A a, b \in {ida, _tasks_completed, pre.completed, TaskIDDefault,
                  Padded(ida), Padded(_tasks_completed)} :
        TaskIDEq(a, b) <=> Bits(a) = Bits(b)
  /\ \A j, k \in Indices : TaskIDEq(TaskID(j), TaskID(k)) <=> j = k
  /\ lastOp = "Reset"
       => /\ TaskIDEq(_tasks_completed, TaskIDDefault)
          /\ TaskIDEq(TaskIDDefault, _tasks_completed)
          /\ Len(_tasks_completed) = Len(pre.completed)

\* Reset was called with identities of both blocks in the completed-set:
\* the emptied completed-set has two blocks, the zero identifier one
C36_Witness ==
  /\ lastOp = "Reset"
  /\ Len(pre.completed) = 2
  /\ pre.completed[1] # {} /\ pre.completed[2] # {}
  /\ Len(_tasks_completed) = 2
  /\ Len(TaskIDDefault) = 1
  /\ TaskIDEq(_tasks_completed, TaskIDDefault)

=============================================================================
